---- MODULE Spec2Model ----
(***************************************************************************)
(* A model of the imdb_analysis notebook (src/imdb_analysis.ipynb): the   *)
(* bulk file fetcher (cell 8), the bulk file loader (cell 9), the          *)
(* box-office fetcher (cell 10), the genre vocabulary (cell 11) and the    *)
(* enrichment/merge pipeline (cell 12).                                    *)
(*                                                                         *)
(* Texts are TLA+ strings, read character by character with SubSeq, Len    *)
(* and \o.  A nullable value is a set with at most one element: NULL is    *)
(* the empty set and a present value v is {v}.  A DataFrame or a table is  *)
(* a sequence of rows; a row is a function from column names to nullable   *)
(* values.  Spark is modelled with its default (non-ANSI) semantics, in    *)
(* which a failed cast, a failed date parse and element_at past the end    *)
(* of an array yield NULL.                                                 *)
(***************************************************************************)
EXTENDS Integers, Sequences, FiniteSets, TLC

VARIABLES
    pc,         \* the statement of the notebook that runs next
    tables,     \* the schema data_analysis.imdb_data: table name -> rows
    site,       \* the hosting site: file name -> the published file
    tmp,        \* /tmp: file name -> the file there
    staged,     \* download_path: file name -> the file there
    links,      \* cell 8: the anchors of the listing still to be fetched
    files,      \* cell 9: the entries of dbutils.fs.ls still to be loaded
    provider,   \* the box-office provider: year -> its answer
    y,          \* cell 10: the loop year
    json_data,  \* cell 10: one list of entries per year fetched
    df,         \* cell 12: the box-office DataFrame
    imdb_df,    \* cell 12: the title DataFrame
    log,        \* the calls made outside the notebook in this run, in order
    loads,      \* how many times cell 9 has run to its end
    snapshot    \* the tables as cell 9 last left them

vars == <<pc, tables, site, tmp, staged, links, files, provider, y, json_data,
          df, imdb_df, log, loads, snapshot>>

----------------------------------------------------------------------------
(* Nullable values *)

NULL == {}

Some(v) == {v}

Get(c) == CHOOSE v \in c : TRUE

----------------------------------------------------------------------------
(* Texts *)

\* The first position at or after i where pat occurs in s, or 0.
RECURSIVE Find(_, _, _)
Find(s, pat, i) ==
    IF i + Len(pat) - 1 > Len(s) THEN 0
    ELSE IF SubSeq(s, i, i + Len(pat) - 1) = pat THEN i
    ELSE Find(s, pat, i + 1)

\* Python's str.replace(old, new), and regexp_replace with a pattern that
\* matches one literal character: every occurrence, left to right.
RECURSIVE Replace(_, _, _)
Replace(s, old, new) ==
    LET k == Find(s, old, 1) IN
    IF k = 0 THEN s
    ELSE SubSeq(s, 1, k - 1) \o new
         \o Replace(SubSeq(s, k + Len(old), Len(s)), old, new)

\* Spark's split(str, sep) with the default limit -1: empty tokens are kept.
RECURSIVE Split(_, _)
Split(s, sep) ==
    LET k == Find(s, sep, 1) IN
    IF k = 0 THEN <<s>>
    ELSE <<SubSeq(s, 1, k - 1)>> \o Split(SubSeq(s, k + Len(sep), Len(s)), sep)

Range(f) == {f[i] : i \in DOMAIN f}

\* The bits of a single-precision significand.
MantissaBits == 24

\* The times cell 9 is run in a row.
MaxLoads == 2

\* range(2010, 2025): the first year requested and the end of the range.
FirstYear == 2010

EndYear == 2025

----------------------------------------------------------------------------
(* Numbers and dates as texts *)

Digits == "0123456789"

IsDigit(ch) == Len(ch) = 1 /\ Find(Digits, ch, 1) > 0

AllDigits(s) == \A i \in 1..Len(s) : IsDigit(SubSeq(s, i, i))

\* The number a run of decimal digits denotes.
RECURSIVE DigitsValue(_)
DigitsValue(s) ==
    IF s = "" THEN 0
    ELSE 10 * DigitsValue(SubSeq(s, 1, Len(s) - 1))
         + (Find(Digits, SubSeq(s, Len(s), Len(s)), 1) - 1)

\* Python's str(n) for n >= 0.
RECURSIVE str(_)
str(n) ==
    IF n < 10 THEN SubSeq(Digits, n + 1, n + 1)
    ELSE str(n \div 10) \o SubSeq(Digits, (n % 10) + 1, (n % 10) + 1)

\* The blanks a cast removes from both ends of its text.
RECURSIVE Trim(_)
Trim(s) ==
    IF s = "" THEN s
    ELSE IF SubSeq(s, 1, 1) = " " THEN Trim(SubSeq(s, 2, Len(s)))
    ELSE IF SubSeq(s, Len(s), Len(s)) = " " THEN Trim(SubSeq(s, 1, Len(s) - 1))
    ELSE s

\* 2^e
RECURSIVE Pow2(_)
Pow2(e) == IF e = 0 THEN 1 ELSE 2 * Pow2(e - 1)

\* The least e with a < 2^(MantissaBits + e).
RECURSIVE ExcessBits(_, _)
ExcessBits(a, e) ==
    IF a < Pow2(MantissaBits + e) THEN e ELSE ExcessBits(a, e + 1)

\* The single-precision value nearest to the integer n (ties to even): the
\* value a column of Spark's FloatType holds for n.
ToFloat(n) ==
    LET a    == IF n < 0 THEN -n ELSE n
        ulp  == Pow2(ExcessBits(a, 0))
        q    == a \div ulp
        r    == a % ulp
        up   == 2 * r > ulp \/ (2 * r = ulp /\ q % 2 = 1)
        m    == IF up THEN (q + 1) * ulp ELSE q * ulp
    IN  IF n < 0 THEN -m ELSE m

\* The text of a number the cast accepts: an optional sign and digits.
Unsigned(s) ==
    IF s # "" /\ SubSeq(s, 1, 1) \in {"-", "+"} THEN SubSeq(s, 2, Len(s)) ELSE s

IsNumeric(s) == Unsigned(Trim(s)) # "" /\ AllDigits(Unsigned(Trim(s)))

NumericValue(s) ==
    IF SubSeq(Trim(s), 1, 1) = "-" THEN -DigitsValue(Unsigned(Trim(s)))
    ELSE DigitsValue(Unsigned(Trim(s)))

\* col.cast("float") of a string column: NULL for NULL and for a text that is
\* no number, with no error raised.
cast_float(c) ==
    IF c = NULL THEN NULL
    ELSE IF IsNumeric(Get(c)) THEN Some(ToFloat(NumericValue(Get(c))))
    ELSE NULL

regexp_replace(c, pattern, replacement) ==
    IF c = NULL THEN NULL ELSE Some(Replace(Get(c), pattern, replacement))

Months ==
    << "Jan", "Feb", "Mar", "Apr", "May", "Jun",
       "Jul", "Aug", "Sep", "Oct", "Nov", "Dec" >>

IsLeap(yr) == (yr % 4 = 0 /\ yr % 100 # 0) \/ yr % 400 = 0

DaysIn(m, yr) ==
    IF m = 2 THEN (IF IsLeap(yr) THEN 29 ELSE 28)
    ELSE IF m \in {4, 6, 9, 11} THEN 30 ELSE 31

\* to_date(col, "MMM d yyyy"): an abbreviated month, a day of one or two
\* digits and a year of four digits, separated by single blanks; NULL for
\* any other text and for a day the month does not have.
to_date(c) ==
    IF c = NULL THEN NULL
    ELSE LET t == Split(Get(c), " ") IN
         IF Len(t) # 3 THEN NULL
         ELSE IF t[1] \notin Range(Months) THEN NULL
         ELSE IF ~(Len(t[2]) \in {1, 2} /\ AllDigits(t[2])) THEN NULL
         ELSE IF ~(Len(t[3]) = 4 /\ AllDigits(t[3])) THEN NULL
         ELSE LET m  == CHOOSE i \in DOMAIN Months : Months[i] = t[1]
                  d  == DigitsValue(t[2])
                  yr == DigitsValue(t[3])
              IN  IF d >= 1 /\ d <= DaysIn(m, yr) /\ yr >= 1
                  THEN Some([year |-> yr, month |-> m, day |-> d])
                  ELSE NULL

----------------------------------------------------------------------------
(* Cell 11: the genre vocabulary *)

genres ==
    << "Action", "Adventure", "Comedy", "Drama", "Fantasy", "Horror",
       "Mystery", "Romance", "Science Fiction", "Thriller", "Western",
       "Animation", "Crime", "Documentary", "Family", "Musical", "War",
       "Historical", "Sports", "Biography" >>

----------------------------------------------------------------------------
(* Cell 12: the derived primary genre *)

\* array_intersect(a, b): the elements of a that are in b, without
\* duplicates, in the order of a.
RECURSIVE ArrayIntersectFrom(_, _, _)
ArrayIntersectFrom(a, b, seen) ==
    IF a = <<>> THEN <<>>
    ELSE IF Head(a) \in Range(b) /\ Head(a) \notin seen
         THEN <<Head(a)>> \o ArrayIntersectFrom(Tail(a), b, seen \cup {Head(a)})
         ELSE ArrayIntersectFrom(Tail(a), b, seen)

array_intersect_vocab_order(a, b) ==
    IF a = NULL \/ b = NULL THEN NULL
    ELSE Some(ArrayIntersectFrom(Get(b), Get(a), {}))

array_intersect(a, b) ==
    IF a = NULL \/ b = NULL THEN NULL
    ELSE Some(ArrayIntersectFrom(Get(a), Get(b), {}))

element_at_last(arr, i) ==
    IF arr = NULL THEN NULL
    ELSE IF Len(Get(arr)) = 0 THEN NULL
    ELSE Some(Get(arr)[Len(Get(arr))])

\* element_at(arr, i) for i >= 1: NULL past the end of the array.
element_at(arr, i) ==
    IF arr = NULL THEN NULL
    ELSE IF i > Len(Get(arr)) THEN NULL
    ELSE Some(Get(arr)[i])

split(c, sep) == IF c = NULL THEN NULL ELSE Some(Split(Get(c), sep))

GenreArray(row) == split(row["genres"], ",")

Matches(row) == array_intersect(GenreArray(row), Some(genres))

Primary_Genre(row) == element_at(Matches(row), 1)

\* withColumn("Primary_Genre", ...) followed by drop("Matches", "Genres",
\* "GenreArray"): column names resolve case-insensitively, so genres goes.
WithPrimaryGenre(row) ==
    [c \in (DOMAIN row \ {"genres"}) \cup {"Primary_Genre"} |->
        IF c = "Primary_Genre" THEN Primary_Genre(row) ELSE row[c]]

----------------------------------------------------------------------------
(* Cell 12: the enrichment/merge pipeline *)

RECURSIVE Flatten(_)
Flatten(lists) ==
    IF lists = <<>> THEN <<>> ELSE Head(lists) \o Flatten(Tail(lists))

Columns(entries) == UNION {DOMAIN entries[i] : i \in DOMAIN entries}

\* spark.read.json over the yearly lists: one row per entry, one column per
\* key any entry has, NULL where an entry lacks the key.
ReadJson(data) ==
    LET entries == Flatten(data) IN
    [i \in DOMAIN entries |->
        [c \in Columns(entries) |->
            IF c \in DOMAIN entries[i] THEN Some(entries[i][c]) ELSE NULL]]

HasColumns(frame, cols) == \A i \in DOMAIN frame : cols \subseteq DOMAIN frame[i]

\* withColumn(name, col): values[i] is the value of col in row i.
withColumn(frame, name, values) ==
    [i \in DOMAIN frame |->
        [c \in DOMAIN frame[i] \cup {name} |->
            IF c = name THEN values[i] ELSE frame[i][c]]]

withColumnRenamed(frame, old, new) ==
    [i \in DOMAIN frame |->
        [c \in (DOMAIN frame[i] \ {old}) \cup {new} |->
            IF c = new THEN frame[i][old] ELSE frame[i][c]]]

CleanGross_keep_commas(row) == cast_float(regexp_replace(row["Gross"], "$", ""))

CleanGross(row) ==
    cast_float(regexp_replace(regexp_replace(row["Gross"], "$", ""), ",", ""))

CleanTotalGross(row) ==
    cast_float(regexp_replace(regexp_replace(row["Total Gross"], "$", ""), ",", ""))

ParseReleaseDate(row) == to_date(row["Release Date"])

UsedColumns == {"Release", "Release Date", "Gross", "Total Gross"}

\* Lines 369-393: read the yearly lists, clean and cast the two gross
\* columns, parse the release date.  A column no entry has cannot be
\* resolved, which fails the cell.
CleanBoxOffice ==
    /\ pc = "clean"
    /\ LET raw == ReadJson(json_data) IN
       IF raw = <<>> \/ ~HasColumns(raw, UsedColumns)
       THEN /\ pc' = "aborted"
            /\ df' = raw
       ELSE /\ pc' = "query"
            /\ df' = withColumn(
                        withColumn(
                            withColumn(raw, "Gross",
                                [i \in DOMAIN raw |-> CleanGross(raw[i])]),
                            "Total Gross",
                            [i \in DOMAIN raw |-> CleanTotalGross(raw[i])]),
                        "Release Date",
                        [i \in DOMAIN raw |-> ParseReleaseDate(raw[i])])
    /\ UNCHANGED <<tables, site, tmp, staged, links, files, provider, y,
                   json_data, imdb_df, log, loads, snapshot>>

BasicsColumns ==
    {"tconst", "titleType", "primaryTitle", "isAdult", "runtimeMinutes", "genres"}

RatingsColumns == {"tconst", "averageRating", "numVotes"}

\* The WHERE clause of imdb_query.
where_any_type(tb) == tb["isAdult"] = Some("0")

where(tb) == tb["titleType"] = Some("movie") /\ tb["isAdult"] = Some("0")

\* The ON clause of imdb_query: a NULL tconst equals nothing.
on(tb, tr) == tb["tconst"] # NULL /\ tb["tconst"] = tr["tconst"]

Projection(tb, tr) ==
    [c \in {"tconst", "primaryTitle", "runtimeMinutes", "genres",
            "averageRating", "numVotes"} |->
        IF c \in {"averageRating", "numVotes"} THEN tr[c] ELSE tb[c]]

\* The pairs <<i, j>> of 1..n and 1..m, the first index varying slowest.
IndexPairs(n, m) ==
    [k \in 1..(n * m) |-> <<((k - 1) \div m) + 1, ((k - 1) % m) + 1>>]

\* The pairs of rows an inner join keeps, in the order of the left frame:
\* those of the set hits.
JoinedPairs(left, right, hits) ==
    SelectSeq(IndexPairs(Len(left), Len(right)), LAMBDA p : p \in hits)

imdb_query(basics, ratings) ==
    LET hits == {p \in (DOMAIN basics) \X (DOMAIN ratings) :
                    on(basics[p[1]], ratings[p[2]]) /\ where(basics[p[1]])}
        kept == JoinedPairs(basics, ratings, hits)
    IN  [k \in DOMAIN kept |-> Projection(basics[kept[k][1]], ratings[kept[k][2]])]

\* Lines 396-410: the title query.  A table or a column the query names
\* and the schema does not hold fails the cell.
QueryImdb ==
    /\ pc = "query"
    /\ IF /\ {"title_basics", "title_ratings"} \subseteq DOMAIN tables
          /\ HasColumns(tables["title_basics"], BasicsColumns)
          /\ HasColumns(tables["title_ratings"], RatingsColumns)
       THEN /\ pc' = "genre"
            /\ imdb_df' = imdb_query(tables["title_basics"], tables["title_ratings"])
       ELSE /\ pc' = "aborted"
            /\ UNCHANGED imdb_df
    /\ UNCHANGED <<tables, site, tmp, staged, links, files, provider, y,
                   json_data, df, log, loads, snapshot>>

\* Lines 413-425: the derived primary genre of every title.
DerivePrimaryGenre ==
    /\ pc = "genre"
    /\ pc' = "join"
    /\ imdb_df' = [i \in DOMAIN imdb_df |-> WithPrimaryGenre(imdb_df[i])]
    /\ UNCHANGED <<tables, site, tmp, staged, links, files, provider, y,
                   json_data, df, log, loads, snapshot>>

UpperCase == "ABCDEFGHIJKLMNOPQRSTUVWXYZ"

LowerCase == "abcdefghijklmnopqrstuvwxyz"

RECURSIVE LowerText(_)
LowerText(t) ==
    IF t = "" THEN ""
    ELSE LET k == Find(UpperCase, SubSeq(t, 1, 1), 1) IN
         (IF k = 0 THEN SubSeq(t, 1, 1) ELSE SubSeq(LowerCase, k, k))
         \o LowerText(SubSeq(t, 2, Len(t)))

Lower(c) == IF c = NULL THEN NULL ELSE Some(LowerText(Get(c)))

join_on_ignoring_case(b, t) ==
    b["Release"] # NULL /\ Lower(b["Release"]) = Lower(t["primaryTitle"])

\* df.Release == imdb_df.primaryTitle: equal texts, and NULL equals nothing.
join_on(b, t) == b["Release"] # NULL /\ b["Release"] = t["primaryTitle"]

Merged(b, t) == [c \in DOMAIN b \cup DOMAIN t |-> IF c \in DOMAIN b THEN b[c] ELSE t[c]]

join(left, right) ==
    LET hits == {p \in (DOMAIN left) \X (DOMAIN right) : join_on(left[p[1]], right[p[2]])}
        kept == JoinedPairs(left, right, hits)
    IN  [k \in DOMAIN kept |-> Merged(left[kept[k][1]], right[kept[k][2]])]

Renamed(frame) ==
    withColumnRenamed(
        withColumnRenamed(
            withColumnRenamed(frame, "Release Date", "Release_Date"),
            "Gross", "Gross_Earnings"),
        "Total Gross", "Total_Gross_Earnings")

\* A write in mode append, which keeps the rows the table held.
Append_to_table(name, frame) ==
    [t \in DOMAIN tables \cup {name} |->
        IF t = name THEN (IF t \in DOMAIN tables THEN tables[t] ELSE <<>>) \o frame
        ELSE tables[t]]

\* saveAsTable in mode overwrite: the table holds the frame's rows and
\* nothing else, and is created when the schema does not hold it.
Overwrite(name, frame) ==
    [t \in DOMAIN tables \cup {name} |-> IF t = name THEN frame ELSE tables[t]]

\* Lines 427-435: the join, the renaming and the write of omdb_analysis.
JoinAndWrite ==
    /\ pc = "join"
    /\ pc' = "done"
    /\ df' = Renamed(join(df, imdb_df))
    /\ tables' = Overwrite("omdb_analysis", df')
    /\ UNCHANGED <<site, tmp, staged, links, files, provider, y, json_data,
                   imdb_df, log, loads, snapshot>>

----------------------------------------------------------------------------
(* The primary genre over bounded genre texts *)

\* The longest genre list drawn.
MaxGenreTokens == 3

\* Two genres of the vocabulary and one that is not in it.
GenreTokens == {"Drama", "Action", "News"}

RECURSIVE JoinTokens(_, _)
JoinTokens(toks, sep) ==
    IF toks = <<>> THEN ""
    ELSE IF Len(toks) = 1 THEN toks[1]
    ELSE toks[1] \o sep \o JoinTokens(Tail(toks), sep)

\* The genres cells drawn: NULL and every list of at most MaxGenreTokens.
GenreCells ==
    {NULL} \cup
    {Some(JoinTokens(toks, ",")) :
        toks \in UNION {[1..n -> GenreTokens] : n \in 0..MaxGenreTokens}}

QueryRow(id, title, g) ==
    [c \in {"tconst", "primaryTitle", "runtimeMinutes", "genres",
            "averageRating", "numVotes"} |->
        CASE c = "tconst" -> Some(id)
          [] c = "primaryTitle" -> Some(title)
          [] c = "runtimeMinutes" -> Some("100")
          [] c = "genres" -> g
          [] c = "averageRating" -> Some("7.5")
          [] c = "numVotes" -> Some("1000")]

\* No file, no table and no box-office entry: the state of the variables a
\* specification does not use.
Unused ==
    /\ tables = <<>>
    /\ site = <<>>
    /\ tmp = <<>>
    /\ staged = <<>>
    /\ links = <<>>
    /\ files = <<>>
    /\ provider = <<>>
    /\ y = FirstYear
    /\ json_data = <<>>
    /\ df = <<>>
    /\ log = <<>>
    /\ loads = 0
    /\ snapshot = <<>>

InitGenre ==
    /\ pc = "genre"
    /\ \E g1 \in GenreCells, g2 \in GenreCells :
          imdb_df = << QueryRow("tt001", "Sample Movie", g1),
                       QueryRow("tt002", "Other Movie", g2) >>
    /\ Unused

NextGenre == DerivePrimaryGenre

SpecGenre == InitGenre /\ [][NextGenre]_vars

Min(S) == CHOOSE m \in S : \A n \in S : m <= n

\* The comma-separated tokens of a genres cell; none for NULL.
TokensOf(g) == IF g = NULL THEN <<>> ELSE Split(Get(g), ",")

\* The position of a token in the vocabulary, or 0.
VocabIndex(tok) ==
    IF tok \in Range(genres) THEN CHOOSE v \in DOMAIN genres : genres[v] = tok
    ELSE 0

\* The positions of a title's tokens that are genres of the vocabulary.
VocabHits(toks) == {k \in DOMAIN toks : VocabIndex(toks[k]) > 0}

\* The first vocabulary genre in the order of the title's own list.
TitleFirst(g) ==
    LET toks == TokensOf(g)
        hits == VocabHits(toks)
    IN  IF hits = {} THEN NULL ELSE Some(toks[Min(hits)])

\* The first genre, in the order of the vocabulary, that the title lists.
VocabFirst(g) ==
    LET toks == TokensOf(g)
        found == {VocabIndex(toks[k]) : k \in VocabHits(toks)}
    IN  IF found = {} THEN NULL ELSE Some(genres[Min(found)])

\* The title lists its vocabulary genres in the order of the vocabulary.
InVocabOrder(g) ==
    LET toks == TokensOf(g)
        hits == VocabHits(toks)
    IN  \A k1, k2 \in hits :
            k1 < k2 => VocabIndex(toks[k1]) <= VocabIndex(toks[k2])

\* C3: Primary_Genre is the first token, in the order of the title's own
\* comma-split genre list, that is in the 20-genre vocabulary; when present
\* it is a token of the title and a genre of the vocabulary, and it is NULL
\* exactly when no token of the title is in the vocabulary.
C3_PrimaryGenreIsTitleFirst ==
    [][DerivePrimaryGenre =>
        \A i \in DOMAIN imdb_df :
            LET g == imdb_df[i]["genres"]
                p == imdb_df'[i]["Primary_Genre"]
            IN  /\ p = TitleFirst(g)
                /\ p # NULL => Get(p) \in Range(TokensOf(g)) \cap Range(genres)
                /\ p = NULL <=> VocabHits(TokensOf(g)) = {}]_vars

\* C3 witness: the genres have been derived, one title has been given Drama
\* and the other no primary genre.
C3_Witness ==
    /\ pc = "join"
    /\ imdb_df[1]["Primary_Genre"] = Some("Drama")
    /\ imdb_df[2]["Primary_Genre"] = NULL

\* C4 as stated: Primary_Genre is the first element in the order of the
\* vocabulary, so that two titles listing the same genres in different orders
\* get the same one.
C4_PrimaryGenreIsVocabFirst ==
    [][DerivePrimaryGenre =>
        /\ \A i \in DOMAIN imdb_df :
              imdb_df'[i]["Primary_Genre"] = VocabFirst(imdb_df[i]["genres"])
        /\ \A i, j \in DOMAIN imdb_df :
              Range(TokensOf(imdb_df[i]["genres"]))
                  = Range(TokensOf(imdb_df[j]["genres"]))
              => imdb_df'[i]["Primary_Genre"] = imdb_df'[j]["Primary_Genre"]]_vars

\* C4 amended: Primary_Genre is the first element in the order of the
\* title's own genre list; it is the first in the order of the vocabulary
\* when the title lists its vocabulary genres in that order, and two titles
\* listing the same genres get the same one when their lists have the same
\* first vocabulary genre.
C4_PrimaryGenreFollowsTitleOrder ==
    [][DerivePrimaryGenre =>
        /\ \A i \in DOMAIN imdb_df :
              LET g == imdb_df[i]["genres"]
                  p == imdb_df'[i]["Primary_Genre"]
              IN  /\ p = TitleFirst(g)
                  /\ InVocabOrder(g) => p = VocabFirst(g)
        /\ \A i, j \in DOMAIN imdb_df :
              TitleFirst(imdb_df[i]["genres"]) = TitleFirst(imdb_df[j]["genres"])
              => imdb_df'[i]["Primary_Genre"] = imdb_df'[j]["Primary_Genre"]]_vars

\* C4 witness: the two titles list Drama and Action in opposite orders and
\* have been given different primary genres.
C4_Witness ==
    /\ pc = "join"
    /\ imdb_df[1]["Primary_Genre"] = Some("Drama")
    /\ imdb_df[2]["Primary_Genre"] = Some("Action")

----------------------------------------------------------------------------
(* The gross cleaning over bounded gross texts *)

\* The longest text drawn over GrossAlphabet.
MaxGrossLen == 3

GrossAlphabet == {"$", ",", "1", "7", "x", "-", " "}

RECURSIVE TextsUpTo(_, _)
TextsUpTo(alphabet, n) ==
    IF n = 0 THEN {""}
    ELSE LET shorter == TextsUpTo(alphabet, n - 1) IN
         shorter \cup {t \o ch : t \in shorter, ch \in alphabet}

\* Amounts as the provider formats them, below and above 2^24.
Amounts ==
    { "$10,000", "$50,000", "$1,234,567", "$16,777,215", "$16,777,216",
      "$16,777,217", "$16,777,218", "$16,777,219", "$123,456,789",
      "$999,999,999" }

GrossTexts == TextsUpTo(GrossAlphabet, MaxGrossLen) \cup Amounts

\* A box-office entry as cell 10 leaves it; a key drawn as NULL is absent.
Entry(release, date, gross, total) ==
    LET cell == [c \in UsedColumns |->
                    CASE c = "Release" -> release
                      [] c = "Release Date" -> date
                      [] c = "Gross" -> gross
                      [] c = "Total Gross" -> total]
    IN  [c \in {k \in UsedColumns : cell[k] # NULL} |-> Get(cell[c])]

SampleEntry ==
    Entry(Some("Sample Movie"), Some("Jan 1 2020"), Some("$10,000"), Some("$50,000"))

InitGross ==
    /\ pc = "clean"
    /\ \E g \in {NULL} \cup {Some(t) : t \in GrossTexts},
          o \in {NULL, Some("$50,000"), Some("$16,777,217"), Some("x")},
          swap \in BOOLEAN :
          json_data =
            << << Entry(Some("Other Movie"), Some("Feb 30 2021"),
                        IF swap THEN o ELSE g, IF swap THEN g ELSE o),
                  SampleEntry >> >>
    /\ tables = <<>>
    /\ site = <<>>
    /\ tmp = <<>>
    /\ staged = <<>>
    /\ links = <<>>
    /\ files = <<>>
    /\ provider = <<>>
    /\ y = EndYear
    /\ df = <<>>
    /\ imdb_df = <<>>
    /\ log = <<>>
    /\ loads = 0
    /\ snapshot = <<>>

NextGross == CleanBoxOffice

SpecGross == InitGross /\ [][NextGross]_vars

\* The text without the characters of a set.
RECURSIVE Without(_, _)
Without(t, chars) ==
    IF t = "" THEN ""
    ELSE (IF SubSeq(t, 1, 1) \in chars THEN "" ELSE SubSeq(t, 1, 1))
         \o Without(SubSeq(t, 2, Len(t)), chars)

\* '$' followed by runs of digits separated by commas.
WellFormedAmount(t) ==
    /\ Len(t) >= 2
    /\ SubSeq(t, 1, 1) = "$"
    /\ LET groups == Split(SubSeq(t, 2, Len(t)), ",") IN
       \A k \in DOMAIN groups : groups[k] # "" /\ AllDigits(groups[k])

\* The number the digits of a well-formed amount denote.
AmountValue(t) == DigitsValue(Without(t, {"$", ","}))

\* A text no number can be read from once '$' and ',' are taken out.
Malformed(t) == ~IsNumeric(Without(t, {"$", ","}))

\* C5: a Gross or Total Gross text of the form '$' digits [',' digits]* is
\* cleaned to the number its digits denote; a missing or malformed text is
\* cleaned to NULL; every row is kept and the run is not aborted.
C5_GrossIsTheNumberDenoted ==
    pc \in {"query", "aborted"} =>
        LET entries == Flatten(json_data) IN
        /\ pc # "aborted"
        /\ Len(df) = Len(entries)
        /\ \A i \in DOMAIN entries : \A c \in {"Gross", "Total Gross"} :
              IF c \notin DOMAIN entries[i] THEN df[i][c] = NULL
              ELSE /\ WellFormedAmount(entries[i][c])
                        => df[i][c] = Some(AmountValue(entries[i][c]))
                   /\ Malformed(entries[i][c]) => df[i][c] = NULL

----------------------------------------------------------------------------
(* The enrichment pipeline over bounded tables and box-office lists *)

\* The most rows title_basics holds.
MaxTitles == 2

BasicsRow(id, type, adult, title, g) ==
    [c \in BasicsColumns |->
        CASE c = "tconst" -> Some(id)
          [] c = "titleType" -> type
          [] c = "isAdult" -> adult
          [] c = "primaryTitle" -> title
          [] c = "runtimeMinutes" -> NULL
          [] c = "genres" -> g]

RatingsRow(id, rating, votes) ==
    [c \in RatingsColumns |->
        CASE c = "tconst" -> Some(id)
          [] c = "averageRating" -> Some(rating)
          [] c = "numVotes" -> Some(votes)]

TitleId(i) == "tt00" \o str(i)

\* The title_basics tables drawn: row i has tconst tt00i.
BasicsTables ==
    UNION { { [i \in 1..n |->
                BasicsRow(TitleId(i), pick[i][1], pick[i][2], pick[i][3],
                          Some("Action,Drama"))] :
              pick \in [1..n ->
                          {Some("movie"), Some("tvSeries")}
                          \X {Some("0"), Some("1")}
                          \X {Some("Sample Movie"), Some("sample movie"), NULL}] } :
            n \in 0..MaxTitles }

SampleTitle ==
    BasicsRow("tt001", Some("movie"), Some("0"), Some("Sample Movie"),
              Some("Action,Drama"))

SampleRating == RatingsRow("tt001", "7.5", "1000")

\* The title_ratings tables drawn: no row, one for tt001, one for tt001 and
\* one for tt002, two for tt001.
RatingsTables ==
    { <<>>,
      <<SampleRating>>,
      <<SampleRating, RatingsRow("tt002", "6.1", "20")>>,
      <<SampleRating, RatingsRow("tt001", "7.6", "1001")>> }

\* The yearly lists drawn: releases that match a title exactly, in another
\* case, with other punctuation or not at all, and an entry with no Release.
BoxOfficeLists ==
    { << <<SampleEntry>> >>,
      << <<SampleEntry,
           Entry(Some("sample movie"), Some("Dec 31 2019"), Some("$7"), Some("$1,234,567"))>>,
         <<SampleEntry>> >>,
      << <<>>,
         <<Entry(Some("Sample Movie!"), Some("Feb 29 2020"), Some("$1"), Some("$2")),
           Entry(NULL, Some("Mar 5 2021"), Some("$3"), Some("$4")),
           Entry(Some("Sample Movie"), Some("soon"), Some("n/a"), NULL)>> >> }

\* The row omdb_analysis holds from an earlier run.
OldRow == [c \in {"Release", "tconst"} |-> Some("old")]

InitEnrich ==
    /\ pc = "clean"
    /\ \E basics \in BasicsTables, ratings \in RatingsTables :
          tables = [t \in {"title_basics", "title_ratings", "omdb_analysis"} |->
                       CASE t = "title_basics" -> basics
                         [] t = "title_ratings" -> ratings
                         [] t = "omdb_analysis" -> <<OldRow>>]
    /\ json_data \in BoxOfficeLists
    /\ site = <<>>
    /\ tmp = <<>>
    /\ staged = <<>>
    /\ links = <<>>
    /\ files = <<>>
    /\ provider = <<>>
    /\ y = EndYear
    /\ df = <<>>
    /\ imdb_df = <<>>
    /\ log = <<>>
    /\ loads = 0
    /\ snapshot = <<>>

NextEnrich ==
    \/ CleanBoxOffice
    \/ QueryImdb
    \/ DerivePrimaryGenre
    \/ JoinAndWrite

SpecEnrich == InitEnrich /\ [][NextEnrich]_vars

\* The box-office entries of the run, in the order of the yearly lists.
BoxOfficeEntries == Flatten(json_data)

\* The rows of a frame whose column holds the text.
RowsWith(frame, column, text) ==
    {i \in DOMAIN frame : column \in DOMAIN frame[i] /\ frame[i][column] = Some(text)}

EntriesWith(text) ==
    {i \in DOMAIN BoxOfficeEntries :
        "Release" \in DOMAIN BoxOfficeEntries[i]
        /\ BoxOfficeEntries[i]["Release"] = text}

ReleaseTexts ==
    {BoxOfficeEntries[i]["Release"] :
        i \in {k \in DOMAIN BoxOfficeEntries : "Release" \in DOMAIN BoxOfficeEntries[k]}}

Qualifies(tb) ==
    /\ tb["titleType"] = Some("movie")
    /\ tb["isAdult"] = Some("0")
    /\ \E j \in DOMAIN tables["title_ratings"] :
          tables["title_ratings"][j]["tconst"] = tb["tconst"]

\* C2: every title that reaches the join, and every merged row written to
\* omdb_analysis, is a title_basics row with titleType 'movie', isAdult '0'
\* and a ratings record of the same tconst; a title of another type, with
\* the adult flag set or with no ratings record is in neither.
C2_OnlyRatedNonAdultMoviesJoin ==
    pc \in {"genre", "join", "done"} =>
        LET basics == tables["title_basics"]
            reached == IF pc = "done" THEN tables["omdb_analysis"] ELSE imdb_df
        IN  /\ \A i \in DOMAIN imdb_df :
                  \E k \in DOMAIN basics :
                      basics[k]["tconst"] = imdb_df[i]["tconst"] /\ Qualifies(basics[k])
            /\ \A i \in DOMAIN reached :
                  \E k \in DOMAIN basics :
                      basics[k]["tconst"] = reached[i]["tconst"] /\ Qualifies(basics[k])
            /\ \A k \in DOMAIN basics :
                  ~Qualifies(basics[k]) =>
                      /\ RowsWith(imdb_df, "tconst", Get(basics[k]["tconst"])) = {}
                      /\ RowsWith(reached, "tconst", Get(basics[k]["tconst"])) = {}

\* C2 witness: a run has ended whose title_basics held a rated non-adult
\* movie and a rated tvSeries of the same title; only the movie was merged.
C2_Witness ==
    /\ pc = "done"
    /\ Len(tables["title_basics"]) = 2
    /\ tables["title_basics"][1]["titleType"] = Some("tvSeries")
    /\ tables["title_basics"][1]["primaryTitle"] = Some("Sample Movie")
    /\ Qualifies(tables["title_basics"][2])
    /\ \E j \in DOMAIN tables["title_ratings"] :
          tables["title_ratings"][j]["tconst"] = Some("tt001")
    /\ tables["omdb_analysis"] # <<>>
    /\ \A i \in DOMAIN tables["omdb_analysis"] :
          tables["omdb_analysis"][i]["tconst"] = Some("tt002")

\* The inputs of the end-to-end example: one title, its rating, one entry.
SampleInputs ==
    /\ tables["title_basics"] = <<SampleTitle>>
    /\ tables["title_ratings"] = <<SampleRating>>
    /\ json_data = << <<SampleEntry>> >>

\* C6: with the title tt001 "Sample Movie" (genres "Action,Drama", rating
\* 7.5, 1000 votes, movie, not adult) and the box-office entry "Sample
\* Movie", "Jan 1 2020", "$10,000", "$50,000", the table written holds
\* exactly one row, with Primary_Genre "Action", Gross_Earnings 10000,
\* Total_Gross_Earnings 50000 and Release_Date 2020-01-01 under their final
\* column names.
C6_SampleMovieRow ==
    (pc = "done" /\ SampleInputs) =>
        LET out == tables["omdb_analysis"] IN
        /\ Len(out) = 1
        /\ {"Primary_Genre", "Gross_Earnings", "Total_Gross_Earnings",
            "Release_Date"} \subseteq DOMAIN out[1]
        /\ {"Release Date", "Gross", "Total Gross"} \cap DOMAIN out[1] = {}
        /\ out[1]["tconst"] = Some("tt001")
        /\ out[1]["Primary_Genre"] = Some("Action")
        /\ out[1]["Gross_Earnings"] = Some(10000)
        /\ out[1]["Total_Gross_Earnings"] = Some(50000)
        /\ out[1]["Release_Date"] = Some([year |-> 2020, month |-> 1, day |-> 1])

\* C6 witness: the run over the inputs of the example has ended.
C6_Witness == pc = "done" /\ SampleInputs /\ Len(tables["omdb_analysis"]) = 1

----------------------------------------------------------------------------
(* Cell 6: the catalog bootstrap *)

\* A bootstrap that would also create the two title tables, empty.
Bootstrap_creating_title_tables ==
    /\ pc = "bootstrap"
    /\ pc' = "listing"
    /\ tables' = [t \in DOMAIN tables \cup {"title_basics", "title_ratings"} |->
                      IF t \in DOMAIN tables THEN tables[t] ELSE <<>>]
    /\ UNCHANGED <<site, tmp, staged, links, files, provider, y,
                   json_data, df, imdb_df, log, loads, snapshot>>

\* Lines 184-192: CREATE CATALOG / SCHEMA IF NOT EXISTS create no table and
\* drop none.
Bootstrap ==
    /\ pc = "bootstrap"
    /\ pc' = "listing"
    /\ UNCHANGED <<tables, site, tmp, staged, links, files, provider, y,
                   json_data, df, imdb_df, log, loads, snapshot>>

----------------------------------------------------------------------------
(* Cell 8: the bulk file fetcher *)

Logged(call, file, ok) == [call |-> call, file |-> file, ok |-> ok]

\* A directory with the file put under the name: in place of the one of
\* that name, or else at the end.
Put(dir, name, content) ==
    IF \E i \in DOMAIN dir : dir[i].name = name
    THEN [i \in DOMAIN dir |->
            IF dir[i].name = name THEN [name |-> name, content |-> content]
            ELSE dir[i]]
    ELSE Append(dir, [name |-> name, content |-> content])

\* /tmp with a file written, and with a file removed.
Written(dir, path, content) ==
    [q \in DOMAIN dir \cup {path} |-> IF q = path THEN content ELSE dir[q]]

Removed(dir, path) == [q \in DOMAIN dir \ {path} |-> dir[q]]

Published(name) == (CHOOSE i \in DOMAIN site : site[i].name = name)

\* gzip -d writes its input without the final ".gz".
GzipTarget(path) == SubSeq(path, 1, Len(path) - 3)

\* Lines 235-237: the listing page and its anchors; a failed request raises.
FetchListing ==
    /\ pc = "listing"
    /\ \/ /\ pc' = "aborted"
          /\ log' = Append(log, Logged("requests.get", "", FALSE))
          /\ UNCHANGED links
       \/ /\ links' = [i \in DOMAIN site |-> site[i].name]
          /\ pc' = IF site = <<>> THEN "load" ELSE "fetch"
          /\ log' = Append(log, Logged("requests.get", "", TRUE))
    /\ UNCHANGED <<tables, site, tmp, staged, files, provider, y,
                   json_data, df, imdb_df, loads, snapshot>>

\* Line 243: urlretrieve raises and ends the run.
DownloadFailed ==
    /\ pc = "fetch"
    /\ links # <<>>
    /\ pc' = "aborted"
    /\ log' = Append(log, Logged("urlretrieve", Head(links), FALSE))
    /\ UNCHANGED <<tables, site, tmp, staged, links, files, provider, y,
                   json_data, df, imdb_df, loads, snapshot>>

\* Lines 239-245: one anchor of the listing.  gzip -d fails on a damaged
\* download and, not run from a terminal, when its target exists; cp fails
\* when its source is missing and may fail when it is there.  os.system
\* returns the exit status of each, the code drops it, and the statement
\* after runs: the next anchor, or cell 9.
FetchFile ==
    /\ pc = "fetch"
    /\ links # <<>>
    /\ LET file_name == Head(links)
           decompressed_file_name == Replace(file_name, ".gz", "")
           dest_download_path == "/tmp/" \o file_name
           target == GzipTarget(dest_download_path)
           source == "/tmp/" \o decompressed_file_name
           downloaded == Written(tmp, dest_download_path,
                                 site[Published(file_name)].content)
       IN  \E damaged \in BOOLEAN, copied \in BOOLEAN :
              LET unzipped == target \notin DOMAIN tmp /\ ~damaged
                  after == IF unzipped
                           THEN Written(Removed(downloaded, dest_download_path),
                                        target, downloaded[dest_download_path].gzip)
                           ELSE downloaded
                  cp == source \in DOMAIN after /\ copied
              IN  /\ tmp' = after
                  /\ staged' = IF cp THEN Put(staged, decompressed_file_name, after[source])
                               ELSE staged
                  /\ log' = log \o << Logged("urlretrieve", file_name, TRUE),
                                      Logged("gzip", file_name, unzipped),
                                      Logged("cp", file_name, cp) >>
                  /\ pc' = IF Tail(links) # <<>> THEN "fetch" ELSE "load"
    /\ links' = Tail(links)
    /\ UNCHANGED <<tables, site, files, provider, y, json_data, df, imdb_df,
                   loads, snapshot>>

----------------------------------------------------------------------------
(* Cell 9: the bulk file loader *)

\* Line 267: the table name of a staged file.
table_name(name) == Replace(Replace(name, ".tsv", ""), ".", "_")

\* spark.read.option("delimiter", "\t").option("header", "true").csv(path):
\* one string column per header field.
ReadCsv(file) ==
    [i \in DOMAIN file.rows |->
        [c \in Range(file.header) |->
            Some(file.rows[i][CHOOSE k \in DOMAIN file.header : file.header[k] = c])]]

\* df.replace(r"\N", None): a cell that is the sentinel becomes NULL.
ReplaceSentinel(frame) ==
    [i \in DOMAIN frame |->
        [c \in DOMAIN frame[i] |->
            IF frame[i][c] = Some("\\N") THEN NULL ELSE frame[i][c]]]

always_exists(name) == TRUE

\* Line 269: catalog().tableExists(full_table_name).
tableExists(name) == name \in DOMAIN tables

\* Line 266: dbutils.fs.ls(download_path), in the order of the directory.
ListStaged ==
    /\ pc = "load"
    /\ pc' = "loading"
    /\ files' = staged
    /\ UNCHANGED <<tables, site, tmp, staged, links, provider, y, json_data,
                   df, imdb_df, log, loads, snapshot>>

\* Lines 267-276: one file of the listing; a file with no table is skipped.
LoadFile ==
    /\ pc = "loading"
    /\ files # <<>>
    /\ files' = Tail(files)
    /\ IF tableExists(table_name(Head(files).name))
       THEN tables' = Overwrite(table_name(Head(files).name),
                                ReplaceSentinel(ReadCsv(Head(files).content)))
       ELSE UNCHANGED tables
    /\ UNCHANGED <<pc, site, tmp, staged, links, provider, y, json_data,
                   df, imdb_df, log, loads, snapshot>>

\* The listing is exhausted: cell 9 ends and cell 10 is next.
EndLoad ==
    /\ pc = "loading"
    /\ files = <<>>
    /\ pc' = "boxoffice"
    /\ loads' = loads + 1
    /\ snapshot' = tables
    /\ UNCHANGED <<tables, site, tmp, staged, links, files, provider, y,
                   json_data, df, imdb_df, log>>

\* Cell 9 is run again, on its own, over the files as they are.
RunLoaderAgain ==
    /\ pc = "boxoffice"
    /\ loads < MaxLoads
    /\ pc' = "load"
    /\ UNCHANGED <<tables, site, tmp, staged, links, files, provider, y,
                   json_data, df, imdb_df, log, loads, snapshot>>

----------------------------------------------------------------------------
(* Cell 10: the box-office fetcher *)

Requested(year, ok) == [call |-> "get_yearly", year |-> year, ok |-> ok]

\* Lines 298-300: the empty list and the first year of range(2010, 2025).
StartBoxOffice ==
    /\ pc = "boxoffice"
    /\ pc' = "yearly"
    /\ json_data' = <<>>
    /\ y' = FirstYear
    /\ UNCHANGED <<tables, site, tmp, staged, links, files, provider,
                   df, imdb_df, log, loads, snapshot>>

\* Line 303: the year appended to the provider's day and month.
Annotated(d, year) ==
    [k \in DOMAIN d |->
        IF k = "Release Date" THEN d[k] \o " " \o str(year) ELSE d[k]]

GetYearlyFailed_swallowed ==
    /\ pc = "yearly"
    /\ y < EndYear
    /\ log' = Append(log, Requested(y, FALSE))
    /\ json_data' = Append(json_data, <<>>)
    /\ y' = y + 1
    /\ UNCHANGED <<pc, tables, site, tmp, staged, links, files, provider,
                   df, imdb_df, loads, snapshot>>

\* Line 301: the request of a year raises; nothing catches it.
GetYearlyFailed ==
    /\ pc = "yearly"
    /\ y < EndYear
    /\ pc' = "aborted"
    /\ log' = Append(log, Requested(y, FALSE))
    /\ UNCHANGED <<tables, site, tmp, staged, links, files, provider, y,
                   json_data, df, imdb_df, loads, snapshot>>

\* Lines 301-304: the entries of a year, annotated and appended.  An entry
\* with no 'Release Date' raises a KeyError.
GetYearly ==
    /\ pc = "yearly"
    /\ y < EndYear
    /\ log' = Append(log, Requested(y, TRUE))
    /\ LET daily_data == provider[y] IN
       IF \A i \in DOMAIN daily_data : "Release Date" \in DOMAIN daily_data[i]
       THEN /\ json_data' = Append(json_data,
                               [i \in DOMAIN daily_data |-> Annotated(daily_data[i], y)])
            /\ y' = y + 1
            /\ UNCHANGED pc
       ELSE /\ pc' = "aborted"
            /\ UNCHANGED <<y, json_data>>
    /\ UNCHANGED <<tables, site, tmp, staged, links, files, provider,
                   df, imdb_df, loads, snapshot>>

\* The range is exhausted: cell 10 ends and cell 12 is next.
EndBoxOffice ==
    /\ pc = "yearly"
    /\ y = EndYear
    /\ pc' = "clean"
    /\ UNCHANGED <<tables, site, tmp, staged, links, files, provider, y,
                   json_data, df, imdb_df, log, loads, snapshot>>

----------------------------------------------------------------------------
(* The loader over bounded staging directories and catalogs *)

\* The most files the staging directory holds.
MaxStaged == 2

StagedNames ==
    {"title.basics.tsv", "title_basics.tsv", "title.ratings.tsv", "name.basics.tsv"}

File(header, rows) == [header |-> header, rows |-> rows]

StagedContents ==
    { File(<<"tconst", "genres">>, << <<"tt001", "\\N">>, <<"tt002", "Drama">> >>),
      File(<<"tconst", "numVotes", "averageRating">>, << <<"\\N", "7", "\\N.5">> >>) }

\* The staging directories drawn: at most MaxStaged files of distinct names,
\* in any order.
StagedDirs ==
    UNION { { d \in [1..n -> [name : StagedNames, content : StagedContents]] :
                \A i, j \in 1..n : i # j => d[i].name # d[j].name } :
            n \in 0..MaxStaged }

\* A row a table holds from before, with the sentinel still in a cell.
StaleRow == [c \in {"tconst", "genres"} |-> Some("\\N")]

\* The catalogs drawn: any of the three tables may be missing.
Catalogs ==
    { [t \in names |-> IF t = "title_ratings" THEN <<>> ELSE <<StaleRow>>] :
        names \in SUBSET {"title_basics", "title_ratings", "omdb_analysis"} }

InitLoader ==
    /\ pc = "load"
    /\ staged \in StagedDirs
    /\ tables \in Catalogs
    /\ site = <<>>
    /\ tmp = <<>>
    /\ links = <<>>
    /\ files = <<>>
    /\ provider = <<>>
    /\ y = FirstYear
    /\ json_data = <<>>
    /\ df = <<>>
    /\ imdb_df = <<>>
    /\ log = <<>>
    /\ loads = 0
    /\ snapshot = <<>>

NextLoader ==
    \/ ListStaged
    \/ LoadFile
    \/ EndLoad
    \/ RunLoaderAgain

SpecLoader == InitLoader /\ [][NextLoader]_vars

\* The tables a staged file is loaded into: those that exist under the name
\* derived from a staged file's name.
LoadedTables == {table_name(staged[i].name) : i \in DOMAIN staged} \cap DOMAIN tables

HoldsSentinel(frame) ==
    \E i \in DOMAIN frame : \E c \in DOMAIN frame[i] : frame[i][c] = Some("\\N")

\* C7: when the loader has run again over the same staged files, every
\* table holds the rows it held after the run before (each write replaces
\* the table, none appends), and after a run no cell of a loaded table is
\* the two-character sentinel \N.
C7_LoaderIsIdempotent ==
    /\ [][(EndLoad /\ loads >= 1) => tables = snapshot]_vars
    /\ [](loads >= 1 /\ pc = "boxoffice" =>
            \A t \in LoadedTables : ~HoldsSentinel(tables[t]))

\* C7 witness: the loader has run twice over two files that name the same
\* table, which held the sentinel before and now holds the second file.
C7_Witness ==
    /\ loads = 2
    /\ pc = "boxoffice"
    /\ Len(staged) = 2
    /\ table_name(staged[1].name) = "title_basics"
    /\ table_name(staged[2].name) = "title_basics"
    /\ staged[1].content # staged[2].content
    /\ "title_basics" \in DOMAIN tables
    /\ tables["title_basics"] = ReplaceSentinel(ReadCsv(staged[2].content))

\* The name the loader derives, character by character: ".tsv" is dropped
\* wherever it occurs and every other '.' becomes '_'.
RECURSIVE DerivedName(_)
DerivedName(name) ==
    IF name = "" THEN ""
    ELSE IF Len(name) >= 4 /\ SubSeq(name, 1, 4) = ".tsv"
         THEN DerivedName(SubSeq(name, 5, Len(name)))
    ELSE (IF SubSeq(name, 1, 1) = "." THEN "_" ELSE SubSeq(name, 1, 1))
         \o DerivedName(SubSeq(name, 2, Len(name)))

\* C8: the loader writes a table only if a table of the derived name is
\* already in the schema: a step of the loader leaves the set of table names
\* as it is, ends in no error, and changes no table but the one of the
\* derived name of the file it reads; a table that matches no staged file
\* keeps its contents.
C8_LoaderWritesOnlyExistingTables ==
    [][(ListStaged \/ LoadFile \/ EndLoad) =>
        /\ DOMAIN tables' = DOMAIN tables
        /\ pc' # "aborted"
        /\ \A t \in DOMAIN tables :
              tables'[t] # tables[t]
              => /\ pc = "loading" /\ files # <<>>
                 /\ t = DerivedName(Head(files).name)
        /\ \A t \in DOMAIN tables \ {DerivedName(staged[i].name) : i \in DOMAIN staged} :
              tables'[t] = tables[t]]_vars

\* C8 witness: the loader has run over title.basics.tsv and name.basics.tsv
\* in a schema with no name_basics: title_basics was written, name_basics
\* was not created and omdb_analysis kept its rows.
C8_Witness ==
    /\ loads = 1
    /\ pc = "boxoffice"
    /\ {staged[i].name : i \in DOMAIN staged} = {"title.basics.tsv", "name.basics.tsv"}
    /\ DOMAIN tables = {"title_basics", "omdb_analysis"}
    /\ tables["title_basics"] # <<StaleRow>>
    /\ tables["omdb_analysis"] = <<StaleRow>>

----------------------------------------------------------------------------
(* The whole run: cells 6, 8, 9, 10 and 12 in order *)

Gzip(file) == [gzip |-> file]

BasicsHeader ==
    <<"tconst", "titleType", "primaryTitle", "isAdult", "runtimeMinutes", "genres">>

\* title.basics.tsv as published, and as an earlier run left it.
BasicsFile ==
    File(BasicsHeader,
         << <<"tt001", "movie", "Sample Movie", "0", "\\N", "Action,Drama">>,
            <<"tt002", "tvSeries", "Sample Movie", "0", "45", "Drama">>,
            <<"tt003", "movie", "Other Movie", "1", "90", "\\N">> >>)

OldBasicsFile ==
    File(BasicsHeader, << <<"tt009", "movie", "Old Movie", "0", "\\N", "Western">> >>)

RatingsFile ==
    File(<<"tconst", "averageRating", "numVotes">>,
         << <<"tt001", "7.5", "1000">>, <<"tt003", "5.0", "10">> >>)

Site ==
    << [name |-> "title.basics.tsv.gz", content |-> Gzip(BasicsFile)],
       [name |-> "title.ratings.tsv.gz", content |-> Gzip(RatingsFile)] >>

\* /tmp on a fresh cluster, and with the file an earlier run unzipped.
TmpDirs == { <<>>, [q \in {"/tmp/title.basics.tsv"} |-> OldBasicsFile] }

\* download_path before the first run, and as an earlier run left it.
EarlierStaged ==
    { <<>>,
      << [name |-> "title.basics.tsv", content |-> OldBasicsFile],
         [name |-> "title.ratings.tsv", content |-> RatingsFile] >> }

\* The schema just created, with the two title tables, and with
\* omdb_analysis from an earlier run too.
EarlierCatalogs ==
    { <<>>,
      [t \in {"title_basics", "title_ratings"} |-> <<>>],
      [t \in {"title_basics", "title_ratings", "omdb_analysis"} |->
          IF t = "omdb_analysis" THEN <<OldRow>> ELSE <<>>] }

Years == FirstYear..(EndYear - 1)

Daily(release, date, gross, total) ==
    [c \in UsedColumns |->
        CASE c = "Release" -> release
          [] c = "Release Date" -> date
          [] c = "Gross" -> gross
          [] c = "Total Gross" -> total]

\* The provider's answers drawn: nothing in any year, and entries in the
\* first year, in 2020 and in the last year.
Providers ==
    { [yr \in Years |-> <<>>],
      [yr \in Years |->
          IF yr = 2020
          THEN <<Daily("Sample Movie", "Jan 1", "$10,000", "$50,000")>>
          ELSE IF yr = FirstYear
          THEN <<Daily("Other Movie", "Dec 31", "$16,777,217", "$123,456,789"),
                 Daily("Old Movie", "Feb 30", "-", "n/a")>>
          ELSE IF yr = EndYear - 1
          THEN <<Daily("sample movie", "Feb 29", "$1", "$2")>>
          ELSE <<>>] }

Init ==
    /\ pc = "bootstrap"
    /\ tables \in EarlierCatalogs
    /\ site = Site
    /\ tmp \in TmpDirs
    /\ staged \in EarlierStaged
    /\ links = <<>>
    /\ files = <<>>
    /\ provider \in Providers
    /\ y = FirstYear
    /\ json_data = <<>>
    /\ df = <<>>
    /\ imdb_df = <<>>
    /\ log = <<>>
    /\ loads = 0
    /\ snapshot = <<>>

Next ==
    \/ Bootstrap
    \/ FetchListing
    \/ DownloadFailed
    \/ FetchFile
    \/ ListStaged
    \/ LoadFile
    \/ EndLoad
    \/ StartBoxOffice
    \/ GetYearly
    \/ GetYearlyFailed
    \/ EndBoxOffice
    \/ CleanBoxOffice
    \/ QueryImdb
    \/ DerivePrimaryGenre
    \/ JoinAndWrite

Spec == Init /\ [][Next]_vars

\* The positions of the log where gzip or cp returned a failure.
OsFailures == {k \in DOMAIN log : log[k].call \in {"gzip", "cp"} /\ ~log[k].ok}

AfterFetch ==
    {"load", "loading", "boxoffice", "yearly", "clean", "query", "genre",
     "join", "done"}

\* C9: a decompression or copy failure for a listed file ends the fetch and
\* the run: no later listed file is downloaded, and the loader, the
\* box-office fetcher and the enrichment pipeline are not executed.
C9_OsFailureEndsTheRun ==
    OsFailures # {} =>
        /\ pc \notin AfterFetch
        /\ \A k \in OsFailures : \A j \in DOMAIN log :
              j > k => log[j].call # "urlretrieve"

\* The get_yearly calls of the run, in the order made.
YearlyCalls == SelectSeq(log, LAMBDA e : e.call = "get_yearly")

AllYearsFetched ==
    /\ Len(YearlyCalls) = EndYear - FirstYear
    /\ \A k \in DOMAIN YearlyCalls : YearlyCalls[k].ok

TableOrNone(tbls, name) == IF name \in DOMAIN tbls THEN Some(tbls[name]) ELSE NULL

\* C10: the yearly requests are made one at a time in ascending order of the
\* year; after a failed one no request follows and the run has ended, the
\* enrichment pipeline starts only when every year has been fetched, and a
\* step changes omdb_analysis only then.
C10_RunStopsAtFirstFailedYear ==
    /\ [](/\ \A k \in DOMAIN YearlyCalls : YearlyCalls[k].year = FirstYear + k - 1
          /\ \A k \in DOMAIN log :
                (log[k].call = "get_yearly" /\ ~log[k].ok)
                => k = Len(log) /\ pc = "aborted"
          /\ pc \in {"clean", "query", "genre", "join", "done"} => AllYearsFetched)
    /\ [][TableOrNone(tables', "omdb_analysis") # TableOrNone(tables, "omdb_analysis")
            => AllYearsFetched /\ pc = "join"]_vars

\* C10 witness: the request of 2012 has failed after two that succeeded, the
\* run has ended and omdb_analysis holds the row of the earlier run.
C10_Witness ==
    /\ pc = "aborted"
    /\ Len(YearlyCalls) = 3
    /\ ~YearlyCalls[3].ok
    /\ YearlyCalls[3].year = 2012
    /\ TableOrNone(tables, "omdb_analysis") = Some(<<OldRow>>)

----------------------------------------------------------------------------
(* Repeated runs of the notebook over the same schema *)

TitleTables == {"title_basics", "title_ratings"}

\* The schema as a run may find it: just created, with one or both title
\* tables, and with omdb_analysis of an earlier run with or without them.
RunCatalogs ==
    EarlierCatalogs \cup
    { [t \in {"omdb_analysis"} |-> <<OldRow>>],
      [t \in {"title_basics"} |-> <<>>],
      [t \in {"title_ratings", "omdb_analysis"} |->
          IF t = "omdb_analysis" THEN <<OldRow>> ELSE <<>>] }

InitRuns ==
    /\ pc = "bootstrap"
    /\ tables \in RunCatalogs
    /\ site = Site
    /\ tmp \in TmpDirs
    /\ staged \in EarlierStaged
    /\ links = <<>>
    /\ files = <<>>
    /\ provider \in Providers
    /\ y = FirstYear
    /\ json_data = <<>>
    /\ df = <<>>
    /\ imdb_df = <<>>
    /\ log = <<>>
    /\ loads = 0
    /\ snapshot = <<>>

\* The notebook is run again from the top after a run has ended: line 112
\* restarts Python, so no variable of the earlier run is left; the schema
\* and the volume are as the run left them, and /tmp is as it was left or
\* empty (a new cluster).
RunAgain ==
    /\ pc \in {"done", "aborted"}
    /\ loads < MaxLoads
    /\ pc' = "bootstrap"
    /\ tmp' \in {tmp, <<>>}
    /\ links' = <<>>
    /\ files' = <<>>
    /\ y' = FirstYear
    /\ json_data' = <<>>
    /\ df' = <<>>
    /\ imdb_df' = <<>>
    /\ log' = <<>>
    /\ UNCHANGED <<tables, site, staged, provider, loads, snapshot>>

NextRuns == Next \/ RunAgain

SpecRuns == InitRuns /\ [][NextRuns]_vars

\* A title table the title query names is not in the schema.
TitleTableMissing == ~(TitleTables \subseteq DOMAIN tables)

\* C11: a run cannot bootstrap its own input tables.  No step of any run
\* creates title_basics or title_ratings, so a schema that lacks one at the
\* start of a run lacks it in every later run; while one is missing the
\* title query, when reached, ends the run, cell 12 gets no further than
\* the query, and no step writes omdb_analysis.
C11_RunCannotBootstrapItsInputs ==
    /\ [][\A t \in TitleTables : t \notin DOMAIN tables => t \notin DOMAIN tables']_vars
    /\ [][(TitleTableMissing /\ pc = "query") => pc' \in {"query", "aborted"}]_vars
    /\ [](TitleTableMissing => pc \notin {"genre", "join", "done"})
    /\ [][TitleTableMissing =>
            TableOrNone(tables', "omdb_analysis") = TableOrNone(tables, "omdb_analysis")]_vars

\* C11 witness: a repeated run over a schema with neither title table, the
\* two files staged and every year fetched, has ended at the title query;
\* the loader has run in this run and in an earlier one, and omdb_analysis
\* is as it was.
C11_Witness ==
    /\ pc = "aborted"
    /\ loads = MaxLoads
    /\ TitleTables \cap DOMAIN tables = {}
    /\ {staged[i].name : i \in DOMAIN staged} = {"title.basics.tsv", "title.ratings.tsv"}
    /\ AllYearsFetched
    /\ df # <<>>
    /\ HasColumns(df, UsedColumns)
    /\ TableOrNone(tables, "omdb_analysis") = Some(<<OldRow>>)

====
